---- MODULE Spec2Model ----
(***************************************************************************)
(* A model of the property library of src/src/lib.rs: owners (Dog) that    *)
(* keep a value in an Rc<RefCell<u64>>, the accessor functions get_size    *)
(* and set_size, the PropertyGetter / PropertySetter / PropertyImplemen-   *)
(* tation forwarding layer, and the type-erased Property, whose get and    *)
(* whose conversion from a PropertyImplementation are todo!() in the       *)
(* source.                                                                 *)
(*                                                                         *)
(* A call that panics is a step that records ok = FALSE in `last` and      *)
(* changes nothing that the unwinding does not change.                     *)
(*                                                                         *)
(* Dog::new takes &self, so the Dogs of a program exist before any call    *)
(* of it: Init holds the Dogs, each with the cell that line 212 gives it.  *)
(***************************************************************************)
EXTENDS Integers, FiniteSets, Sequences, TLC

\* ---- bounds of the model ----
NumOwners == 2      \* Dog instances
MaxHandles == 2     \* Rc handles that callers hold at once, over all cells

Owners == 1..NumOwners
Cells == 1..NumOwners

\* The code never computes with a size, it only stores and returns it: the sizes
\* are the two ends of u64, 0 (the minimum and the default) and u64::MAX.
Values == {"zero", "max"}

VARIABLES
    alive,      \* alive[d]: the Dog d still holds its field _dog_size (it has not been dropped)
    hasProp,    \* hasProp[d]: the Dog d still holds its field dog_size, the Property
    dogCell,    \* dogCell[d]: the cell Dog d's field _dog_size points to
    value,      \* value[c]: the u64 inside RefCell c ("freed" once deallocated)
    borrow,     \* borrow[c]: RefCell's borrow flag: 0 unused, n > 0 shared borrows, -1 mutably borrowed
    strong,     \* strong[c]: Rc's strong count of cell c
    alloc,      \* alloc[c]: the cell's allocation exists
    handles,    \* handles[c]: how many Rc handles to c callers hold (each came from a get)
    readers,    \* readers[c]: how many Ref guards callers hold on c
    writers,    \* writers[c]: how many RefMut guards callers hold on c
    impl,       \* the PropertyImplementation a caller has built: its getter and setter, each with its item
    gets,       \* gets.res: what the (at most two) Property::get calls on Dog gets.d
                \*           made right before this state returned, oldest first (0: no handle)
    last        \* the last call made and how it ended

vars == <<alive, hasProp, dogCell, value, borrow, strong, alloc, handles, readers, writers, impl, gets, last>>

\* ---- helpers ----

\* no PropertyImplementation is held
NoImpl ==
    [made |-> FALSE,
     getter |-> [item |-> 0, get_func |-> "none"],
     setter |-> [item |-> 0, set_func |-> "none"]]

\* no Property::get call is remembered
NoGets == [d |-> 0, res |-> <<>>]

\* a call of `op` on owner/item d with value argument v; c is the cell of the
\* handle it returned or worked on (0: none)
Call(op, d, v, ok, c) ==
    [op |-> op, d |-> d, v |-> v, ok |-> ok, c |-> c]

RECURSIVE SumUpTo(_, _)
SumUpTo(f, n) == IF n = 0 THEN 0 ELSE f[n] + SumUpTo(f, n - 1)

\* the handles callers hold, over all cells
TotalHandles == SumUpTo(handles, NumOwners)

\* a method taking &self can be called on Dog d: no field has been moved out of it
Whole(d) == alive[d] /\ hasProp[d]

\* Rc::new(RefCell::new(size)) in Dog::new: every Dog gets a cell of its own
NewCellShared(d) == 1
NewCell(d) == d

\* Dog::get_size: the cell behind self._dog_size (to_owned on an Rc clones the handle, not the value)
get_size(d) == dogCell[d]

\* Rc::clone: one more strong reference to c
RcCloneNoCount(c) == strong
RcClone(c) == [strong EXCEPT ![c] = @ + 1]

\* RefCell::replace goes through borrow_mut: it panics unless the flag is unused
CanReplaceUnchecked(c) == TRUE
CanReplaceWriterOnly(c) == borrow[c] >= 0
CanReplace(c) == borrow[c] = 0

\* RefCell::borrow: allowed unless mutably borrowed
CanBorrow(c) == borrow[c] >= 0

\* RefCell::borrow_mut: allowed only when the flag is unused
CanBorrowMut(c) == borrow[c] = 0

\* Rc drop: the allocation survives while the strong count left is positive
StillAlloc(n) == n > 0

Init ==
    /\ alive = [d \in Owners |-> TRUE]
    /\ hasProp = [d \in Owners |-> TRUE]
    /\ dogCell = [d \in Owners |-> NewCell(d)]
    /\ alloc = [c \in Cells |-> \E d \in Owners : NewCell(d) = c]
    /\ strong = [c \in Cells |-> Cardinality({d \in Owners : NewCell(d) = c})]
    /\ value \in [Cells -> Values \cup {"freed"}]
    /\ \A c \in Cells : value[c] = "freed" <=> ~alloc[c]
    /\ borrow = [c \in Cells |-> 0]
    /\ handles = [c \in Cells |-> 0]
    /\ readers = [c \in Cells |-> 0]
    /\ writers = [c \in Cells |-> 0]
    /\ impl = NoImpl
    /\ gets = NoGets
    /\ last = Call("init", 0, "-", TRUE, 0)

\* ---- the owner's accessor functions ----

\* Dog::get_size(&self): self._dog_size.to_owned()
GetSizeEffect(d) ==
    /\ strong' = RcClone(get_size(d))
    /\ handles' = [handles EXCEPT ![get_size(d)] = @ + 1]
    /\ gets' = NoGets
    /\ UNCHANGED <<alive, hasProp, dogCell, value, borrow, alloc, readers, writers, impl>>

\* Dog::set_size(&self, value): self._dog_size.replace(value)
SetSizeEffect(d, v, ok) ==
    /\ ok = CanReplace(dogCell[d])
    /\ value' = IF ok THEN [value EXCEPT ![dogCell[d]] = v] ELSE value
    /\ gets' = NoGets
    /\ UNCHANGED <<alive, hasProp, dogCell, borrow, strong, alloc, handles, readers, writers, impl>>

DogGetSize(d) ==
    /\ Whole(d)
    /\ TotalHandles < MaxHandles
    /\ GetSizeEffect(d)
    /\ last' = Call("get_size", d, "-", TRUE, get_size(d))

DogSetSize(d, v) ==
    /\ Whole(d)
    /\ \E ok \in BOOLEAN :
        /\ SetSizeEffect(d, v, ok)
        /\ last' = Call("set_size", d, v, ok, 0)

\* Dog::new(&self, size): the first field it builds is
\* PropertyImplementation::new(self, get_size, set_size).into(), and into() is todo!()
DogNew(d, size) ==
    /\ Whole(d)
    /\ last' = Call("Dog::new", d, "-", FALSE, 0)
    /\ gets' = NoGets
    /\ UNCHANGED <<alive, hasProp, dogCell, value, borrow, strong, alloc, handles, readers, writers, impl>>

\* ---- PropertyImplementation ----

\* PropertyImplementation::new(item, get_func, set_func)
ImplNew(item) ==
    /\ ~impl.made
    /\ Whole(item)
    /\ impl' = [made |-> TRUE,
                getter |-> [item |-> item, get_func |-> "Dog::get_size"],
                setter |-> [item |-> item, set_func |-> "Dog::set_size"]]
    /\ last' = Call("impl.new", item, "-", TRUE, 0)
    /\ gets' = NoGets
    /\ UNCHANGED <<alive, hasProp, dogCell, value, borrow, strong, alloc, handles, readers, writers>>

\* PropertyImplementation::get(&self, item) -> self.getter.get(item) -> (self.get_func)(item)
ImplGet(item) ==
    /\ impl.made
    /\ impl.getter.get_func = "Dog::get_size"
    /\ Whole(item)
    /\ TotalHandles < MaxHandles
    /\ GetSizeEffect(item)
    /\ last' = Call("impl.get", item, "-", TRUE, get_size(item))

\* PropertyImplementation::set(&self, item, val) -> self.setter.set(item, val) -> (self.set_func)(item, val)
ImplSet(item, v) ==
    /\ impl.made
    /\ impl.setter.set_func = "Dog::set_size"
    /\ Whole(item)
    /\ \E ok \in BOOLEAN :
        /\ SetSizeEffect(item, v, ok)
        /\ last' = Call("impl.set", item, v, ok, 0)

\* <PropertyImplementation as Into<Property>>::into(self): todo!()
ImplInto ==
    /\ impl.made
    /\ impl' = NoImpl
    /\ last' = Call("into", 0, "-", FALSE, 0)
    /\ gets' = NoGets
    /\ UNCHANGED <<alive, hasProp, dogCell, value, borrow, strong, alloc, handles, readers, writers>>

\* ---- Property ----

\* <Property as GetProp>::get(&self) on Dog d's field dog_size: todo!()
PropertyGet(d) ==
    /\ Whole(d)
    /\ gets' = [d |-> d,
                res |-> IF gets.d # d THEN <<0>>
                        ELSE IF Len(gets.res) < 2 THEN Append(gets.res, 0)
                        ELSE Append(Tail(gets.res), 0)]
    /\ last' = Call("Property.get", d, "-", FALSE, 0)
    /\ UNCHANGED <<alive, hasProp, dogCell, value, borrow, strong, alloc, handles, readers, writers, impl>>

\* ---- what callers do with an Rc<RefCell<u64>> they got ----

\* handle.borrow() through a handle to c that holds no guard yet
HBorrow(c) ==
    /\ handles[c] > readers[c] + writers[c]
    /\ IF CanBorrow(c)
       THEN /\ borrow' = [borrow EXCEPT ![c] = @ + 1]
            /\ readers' = [readers EXCEPT ![c] = @ + 1]
            /\ last' = Call("borrow", 0, "-", TRUE, c)
       ELSE /\ UNCHANGED <<borrow, readers>>
            /\ last' = Call("borrow", 0, "-", FALSE, c)
    /\ gets' = NoGets
    /\ UNCHANGED <<alive, hasProp, dogCell, value, strong, alloc, handles, writers, impl>>

\* handle.borrow_mut() through a handle to c that holds no guard yet
HBorrowMut(c) ==
    /\ handles[c] > readers[c] + writers[c]
    /\ IF CanBorrowMut(c)
       THEN /\ borrow' = [borrow EXCEPT ![c] = -1]
            /\ writers' = [writers EXCEPT ![c] = @ + 1]
            /\ last' = Call("borrow_mut", 0, "-", TRUE, c)
       ELSE /\ UNCHANGED <<borrow, writers>>
            /\ last' = Call("borrow_mut", 0, "-", FALSE, c)
    /\ gets' = NoGets
    /\ UNCHANGED <<alive, hasProp, dogCell, value, strong, alloc, handles, readers, impl>>

\* a Ref on c goes out of scope
HReleaseRef(c) ==
    /\ readers[c] > 0
    /\ readers' = [readers EXCEPT ![c] = @ - 1]
    /\ borrow' = [borrow EXCEPT ![c] = @ - 1]
    /\ last' = Call("release", 0, "-", TRUE, c)
    /\ gets' = NoGets
    /\ UNCHANGED <<alive, hasProp, dogCell, value, strong, alloc, handles, writers, impl>>

\* a RefMut on c goes out of scope
HReleaseMut(c) ==
    /\ writers[c] > 0
    /\ writers' = [writers EXCEPT ![c] = @ - 1]
    /\ borrow' = [borrow EXCEPT ![c] = 0]
    /\ last' = Call("release_mut", 0, "-", TRUE, c)
    /\ gets' = NoGets
    /\ UNCHANGED <<alive, hasProp, dogCell, value, strong, alloc, handles, readers, impl>>

\* drop of one Rc to cell c
RcDrop(c) ==
    /\ strong' = [strong EXCEPT ![c] = @ - 1]
    /\ alloc' = [alloc EXCEPT ![c] = StillAlloc(strong[c] - 1)]
    /\ value' = IF StillAlloc(strong[c] - 1) THEN value ELSE [value EXCEPT ![c] = "freed"]

\* a caller drops a handle to c (a guard borrows its handle, so this one holds none)
DropHandle(c) ==
    /\ handles[c] > readers[c] + writers[c]
    /\ RcDrop(c)
    /\ handles' = [handles EXCEPT ![c] = @ - 1]
    /\ last' = Call("drop_handle", 0, "-", TRUE, c)
    /\ gets' = NoGets
    /\ UNCHANGED <<alive, hasProp, dogCell, borrow, readers, writers, impl>>

\* The Property in the Dog's field dog_size is moved out and dropped by itself.
\* What a Property owns is its boxed implementation (line 168), for a Dog the
\* item and the two function pointers of a PropertyImplementation (lines 65-69,
\* 94-98, 123-127): no Rc to the cell. From then on no &self method of the Dog
\* can be called. (A PropertyImplementation borrows its item, so none is bound to d.)
DropProperty(d) ==
    /\ Whole(d)
    /\ impl.made => impl.getter.item # d /\ impl.setter.item # d
    /\ hasProp' = [hasProp EXCEPT ![d] = FALSE]
    /\ last' = Call("drop_property", d, "-", TRUE, dogCell[d])
    /\ gets' = NoGets
    /\ UNCHANGED <<alive, dogCell, value, borrow, strong, alloc, handles, readers, writers, impl>>

\* DropOwner for a Dog that owned its value outright: the value goes with the Dog
DropOwnerFrees(d) ==
    /\ alive[d]
    /\ impl.made => impl.getter.item # d /\ impl.setter.item # d
    /\ strong' = [strong EXCEPT ![dogCell[d]] = 0]
    /\ alloc' = [alloc EXCEPT ![dogCell[d]] = FALSE]
    /\ value' = [value EXCEPT ![dogCell[d]] = "freed"]
    /\ alive' = [alive EXCEPT ![d] = FALSE]
    /\ hasProp' = [hasProp EXCEPT ![d] = FALSE]
    /\ last' = Call("drop_owner", d, "-", TRUE, dogCell[d])
    /\ gets' = NoGets
    /\ UNCHANGED <<dogCell, borrow, handles, readers, writers, impl>>

\* the Dog is dropped, with the fields it still holds (_dog_size, and dog_size unless moved out)
\* (a PropertyImplementation borrows its item, so none is bound to d)
DropOwner(d) ==
    /\ alive[d]
    /\ impl.made => impl.getter.item # d /\ impl.setter.item # d
    /\ RcDrop(dogCell[d])
    /\ alive' = [alive EXCEPT ![d] = FALSE]
    /\ hasProp' = [hasProp EXCEPT ![d] = FALSE]
    /\ last' = Call("drop_owner", d, "-", TRUE, dogCell[d])
    /\ gets' = NoGets
    /\ UNCHANGED <<dogCell, borrow, handles, readers, writers, impl>>

Next ==
    \/ \E d \in Owners : DogGetSize(d)
    \/ \E d \in Owners, v \in Values : DogSetSize(d, v)
    \/ \E d \in Owners, v \in Values : DogNew(d, v)
    \/ \E d \in Owners : ImplNew(d)
    \/ \E d \in Owners : ImplGet(d)
    \/ \E d \in Owners, v \in Values : ImplSet(d, v)
    \/ ImplInto
    \/ \E d \in Owners : PropertyGet(d)
    \/ \E c \in Cells : HBorrow(c)
    \/ \E c \in Cells : HBorrowMut(c)
    \/ \E c \in Cells : HReleaseRef(c)
    \/ \E c \in Cells : HReleaseMut(c)
    \/ \E c \in Cells : DropHandle(c)
    \/ \E d \in Owners : DropProperty(d)
    \/ \E d \in Owners : DropOwner(d)

Spec == Init /\ [][Next]_vars

TypeOK ==
    /\ alive \in [Owners -> BOOLEAN]
    /\ hasProp \in [Owners -> BOOLEAN]
    /\ dogCell \in [Owners -> Cells]
    /\ value \in [Cells -> Values \cup {"freed"}]
    /\ borrow \in [Cells -> -1..MaxHandles]
    /\ strong \in [Cells -> 0..(NumOwners + MaxHandles)]
    /\ alloc \in [Cells -> BOOLEAN]
    /\ handles \in [Cells -> 0..MaxHandles]
    /\ readers \in [Cells -> 0..MaxHandles]
    /\ writers \in [Cells -> 0..MaxHandles]
    /\ gets.d \in 0..NumOwners /\ Len(gets.res) <= 2

\* ---- vocabulary of the properties ----

\* the calls that set a property's value / that get a handle to it
SetOps == {"set_size", "impl.set"}
GetOps == {"get_size", "impl.get", "Property.get"}

\* the holders of cell c: the live Dogs whose _dog_size points to it, and the callers' handles
Holders(c) == handles[c] + Cardinality({d \in Owners : alive[d] /\ dogCell[d] = c})

\* ---- C1 ----
\* C1 (aliasing): when get() has been called twice on a Dog's Property with no
\* set in between and a set(v) on that Dog then succeeds, both calls have yielded
\* a handle to the Dog's cell and both handles read v.
C1_Aliasing ==
    [][(/\ last'.op \in SetOps
        /\ last'.ok
        /\ gets.d = last'.d
        /\ Len(gets.res) = 2)
       => \A i \in 1..2 :
            /\ gets.res[i] = dogCell[last'.d]
            /\ value'[gets.res[i]] = last'.v]_vars

\* ---- C2 ----
\* C2 (round trip): a get() on a Dog's Property right after a successful set(v)
\* on that Dog returns a handle, and the value in the handle's cell is v.
C2_RoundTrip ==
    [][(/\ last.op \in SetOps
        /\ last.ok
        /\ last'.op = "Property.get"
        /\ last'.d = last.d)
       => (/\ last'.ok
           /\ last'.c = dogCell[last.d]
           /\ value'[last'.c] = last.v)]_vars

C4_ExclusiveBorrow ==
    /\ [](\A c \in Cells : writers[c] <= 1)
    /\ [][/\ (last'.op \in SetOps /\ writers[dogCell[last'.d]] > 0)
             => (~last'.ok /\ value' = value)
          /\ (last'.op = "borrow_mut" /\ writers[last'.c] > 0)
             => (~last'.ok /\ writers' = writers /\ borrow' = borrow)]_vars

\* a set has panicked on a cell that a caller holds a RefMut on
C4_Witness ==
    /\ last.op \in SetOps
    /\ ~last.ok
    /\ writers[dogCell[last.d]] = 1

\* ---- C5 ----
\* C5 (erasure delegation): the conversion of a PropertyImplementation returns
\* a Property, and Property::get returns a handle to the cell that the owner's
\* getter returns.
C5_ErasureDelegation ==
    /\ last.op = "into" => last.ok
    /\ last.op = "Property.get" => (last.ok /\ last.c = get_size(last.d))

\* ---- C6 ----
\* C6 (totality): a conversion, a Property::get or a set that is called while
\* the cell has no borrow out returns normally.
C6_Totality ==
    (/\ last.op \in {"into", "Property.get"} \cup SetOps
     /\ last.d # 0 => borrow[dogCell[last.d]] = 0)
    => last.ok

\* ---- C7 ----
\* C7 (bound owner): PropertyImplementation's get returns a handle to the cell
\* of the item stored at construction, and its set writes that item's cell and
\* no other.
C7_BoundOwner ==
    [][/\ last'.op = "impl.get" => last'.c = dogCell[impl.getter.item]
       /\ (last'.op = "impl.set" /\ last'.ok)
          => value' = [value EXCEPT ![dogCell[impl.setter.item]] = last'.v]]_vars

\* ---- C8 ----
\* C8 (get is read-only): a get changes no cell's value, borrow flag, guards or
\* allocation; the one thing it changes is the strong count of the cell it
\* returns a handle to, by one.
C8_GetReadOnly ==
    [][last'.op \in GetOps
       => /\ value' = value
          /\ borrow' = borrow
          /\ readers' = readers
          /\ writers' = writers
          /\ alloc' = alloc
          /\ strong' = IF last'.c = 0 THEN strong
                       ELSE [strong EXCEPT ![last'.c] = @ + 1]
          /\ handles' = IF last'.c = 0 THEN handles
                        ELSE [handles EXCEPT ![last'.c] = @ + 1]]_vars

\* a get has returned a second handle to a cell that is mutably borrowed
C8_Witness ==
    /\ last.op \in {"get_size", "impl.get"}
    /\ handles[last.c] = 2
    /\ writers[last.c] = 1

C10_SetNeedsNoBorrow ==
    [][last'.op \in SetOps
       => /\ last'.ok <=> (readers[dogCell[last'.d]] + writers[dogCell[last'.d]] = 0)
          /\ ~last'.ok => value' = value
          /\ last'.ok => value'[dogCell[last'.d]] = last'.v]_vars

\* a set has panicked on a cell that has only shared borrows out
C10_Witness ==
    /\ last.op \in SetOps
    /\ ~last.ok
    /\ readers[dogCell[last.d]] > 0
    /\ writers[dogCell[last.d]] = 0
====
